---- MODULE Spec2Model ----
(***************************************************************************)
(* A model of monstr/relay/relay.py: the Relay object, its per-connection  *)
(* websocket handlers and the asyncio tasks they create.                   *)
(*                                                                         *)
(* The asyncio event loop is modelled by `ready`, the FIFO queue of tasks  *)
(* that are ready to run (loop.call_soon runs callbacks in the order they  *)
(* were registered; asyncio.create_task registers the task's first step,   *)
(* a completed task registers the wake-up of whoever awaits it).  One      *)
(* step of the model runs the task at the head of `ready` up to its next   *)
(* suspension.  A handler blocked in "async for msg in ws" is woken by I/O *)
(* at any moment (Arrive, Drop), which appends it to the queue.            *)
(* ws.send_str writes the frame to the transport at the moment it is       *)
(* called, and raises when the transport is gone.                          *)
(***************************************************************************)
EXTENDS Integers, Sequences, FiniteSets, TLC

\* ------------------------------------------------------------------ bounds
MaxConn   == 2      \* websocket connections ever accepted
MaxMsgs   == 4      \* text frames ever received, all connections together
MaxMaxSub == 2      \* largest max_sub the relay is constructed with
MaxGets   == 2      \* GET requests without upgrade ever answered

SubIds == {"x", "y"}

\* the sub_id of a frame ["REQ"] or ["CLOSE"], which has no second element
NoSubId == "(no sub_id)"

\* --------------------------------------------------------------- events
KIND_DELETE == 5

\* The events clients post.  ok: Event.is_valid(); etag: the id a kind 5
\* event refers to (0: none).
Events ==
  { [id |-> 1, kind |-> 1, ts |-> 1, ok |-> TRUE,  etag |-> 0],
    [id |-> 2, kind |-> 1, ts |-> 2, ok |-> TRUE,  etag |-> 0],
    [id |-> 3, kind |-> 5, ts |-> 2, ok |-> TRUE,  etag |-> 1],
    [id |-> 4, kind |-> 1, ts |-> 3, ok |-> FALSE, etag |-> 0] }

EventIds == {e.id : e \in Events}

Ev(i) == CHOOSE e \in Events : e.id = i

\* A filter restricts the kinds, or (all) restricts nothing: the {} of a REQ
\* without filters.
MatchAll == [all |-> TRUE, kinds |-> {}]
KindFilter(ks) == [all |-> FALSE, kinds |-> ks]

\* Event.test(filter): the event passes one of the filters
test(e, filter) ==
  \E i \in 1..Len(filter) : filter[i].all \/ e.kind \in filter[i].kinds

\* ------------------------------------------------- the event store (4.1)
\* The store holds a set of event ids.  get_filter returns the stored events
\* that pass the filter, newest created_at first, ties by id descending.
Newer(a, b) == a.ts > b.ts \/ (a.ts = b.ts /\ a.id > b.id)

RECURSIVE SortNewest(_)
SortNewest(S) ==
  IF S = {} THEN <<>>
  ELSE LET m == CHOOSE a \in S : \A b \in S \ {a} : Newer(Ev(a), Ev(b))
       IN  <<m>> \o SortNewest(S \ {m})

get_filter(st, filter) == SortNewest({i \in st : test(Ev(i), filter)})

\* add_event: Duplicate when the id is stored, StorageFault on any other
\* error (fault), otherwise the event is persisted.
add_event_result(st, e, fault) ==
  IF e.id \in st THEN "duplicate"
  ELSE IF fault = "add" THEN "fault"
  ELSE "ok"

add_event(st, e) == st \cup {e.id}

\* do_delete: removes the events the e-tags of a kind 5 event refer to
do_delete(st, e) == st \ {e.etag}

\* --------------------------------------------------- the accept chain
\* A policy is the set of event ids it rejects; AcceptReqHandler() accepts
\* everything.
AcceptReqHandler == {}
Chains == { <<AcceptReqHandler>>, <<{2}, {3}>> }

\* lines 272-273: for c_accept in self._accept_req: c_accept.accept_post(ws,
\* evt), from policy i on.  called: the number of policies invoked; raised:
\* the last one invoked rejected the event, which ends the loop.
RECURSIVE AcceptLoop(_, _, _)
AcceptLoop(chain, i, e) ==
  IF i > Len(chain) THEN [called |-> Len(chain), raised |-> FALSE]
  ELSE IF e.id \in chain[i] THEN [called |-> i, raised |-> TRUE]
  ELSE AcceptLoop(chain, i + 1, e)

\* ------------------------------------------------------------- state
VARIABLES
  ws_id,         \* self._ws_id
  ws,            \* self._ws: socket id -> [subs: insertion-ordered subs]
  max_sub,       \* self._max_sub
  enable_nip15,  \* self._enable_nip15
  accept_req,    \* self._accept_req
  store,         \* self._store
  ready,         \* the event loop's queue of ready tasks, FIFO
  hpc,           \* where each connection's _websocket_handler stands
  sock,          \* each websocket's transport: "open", "closed" (gone), or
                 \* "failed" (gone, and the write of a fan-out frame by
                 \* _do_send has raised)
  out,           \* the frames written to each websocket, in order
  nmsgs,         \* text frames received so far
  nacc,          \* events add_event has accepted so far
  last,          \* what each handler did with the latest frame it handled
  admitted,      \* the events posted and stored, and not deleted since
  closed,        \* the subscriptions a CLOSE removed
  given,         \* what __init__ is handed: pubkey, and the store's answers
                 \* to is_NIP09() and is_NIP16()
  relay_information,  \* self._relay_information, and how __init__ ended
  resp           \* the responses to GET requests without upgrade, in order

info == <<given, relay_information, resp>>

vars == <<ws_id, ws, max_sub, enable_nip15, accept_req, store, ready, hpc,
          sock, out, nmsgs, nacc, last, admitted, closed, given,
          relay_information, resp>>

\* ------------------------------------------------- frames and tasks
NoFilter == <<>>

Msg(cmd, sub, f, e) == [cmd |-> cmd, sub |-> sub, f |-> f, e |-> e]
NoMsg == Msg("", "", NoFilter, 0)

\* a frame written to a websocket.  gen, n and live are not on the wire:
\* gen tells which REQ of the socket (its first frame, its second, ...)
\* created the subscription the frame was produced for,
\* n is the store-acceptance number of a live event, live tells a fan-out
\* frame from a backfill frame.
Frame(type, sub, e, gen, n, live, text) ==
  [type |-> type, sub |-> sub, e |-> e, gen |-> gen, n |-> n,
   live |-> live, text |-> text]

EventFrame(sub, e, gen, n, live) == Frame("EVENT", sub, e, gen, n, live, "")
EoseFrame(sub, gen) == Frame("EOSE", sub, 0, gen, 0, FALSE, "")
NoticeFrame(text, e) == Frame("NOTICE", "", e, 0, 0, FALSE, text)

\* a task in the ready queue:
\*   "H"  a handler woken with the text frame msg (or end of stream)
\*   "W"  a handler woken by the completion of the task it awaits
\*   "T"  _send_event(ws, sub_id, evt); wake: _do_sub awaits it
\*   "D"  _do_send(ws, ["EVENT", sub_id, evt])
Task(t, c, fr, wake, msg) ==
  [t |-> t, c |-> c, fr |-> fr, wake |-> wake, msg |-> msg]

NoFrame == Frame("", "", 0, 0, 0, FALSE, "")

HandlerTask(c, m) == Task("H", c, NoFrame, FALSE, m)
WakeTask(c) == Task("W", c, NoFrame, FALSE, NoMsg)
SendEventTask(c, fr, wake) == Task("T", c, fr, wake, NoMsg)
DoSendTask(c, fr) == Task("D", c, fr, FALSE, NoMsg)

\* a handler: pc is "recv" (blocked in async for), "woken" (in the ready
\* queue with a frame), "backfill" (in _do_sub, awaiting a _send_event
\* task), "done" (returned) or "crashed" (left by an exception).
\* sub, gen, evts: the subscription being backfilled and the events left.
Handler(pc, sub, gen, evts) ==
  [pc |-> pc, sub |-> sub, gen |-> gen, evts |-> evts]

Idle(pc) == Handler(pc, "", 0, <<>>)

\* What a handler did with a frame, for the properties below.
\*   k        the number of the frame among those of its socket
\*   res      the branch taken
\*   called   the number of accept policies invoked
\*   tried    add_event was called; added: it returned, which made the
\*            event the n-th accepted one
\*   deleted  do_delete was called
\*   fanout   _check_subs was called;  sched: the <<socket, sub_id>> it
\*            created a send for
\*   backfill what get_filter returned to _do_sub
\*   due      the events admitted before a REQ that pass its filter
\*   held     the sub_id of a REQ was held when the frame was handled
\*   listening  the <<socket, sub_id, gen>> of the subscriptions that passed
\*            the event of an EVENT frame when it was handled and whose
\*            backfill was over by then
\*   after    cmd, sub and res of the frame handled before on this socket
Prev(cmd, sub, res) == [cmd |-> cmd, sub |-> sub, res |-> res]

Op(k, cmd, sub, e, res, after) ==
  [k |-> k, cmd |-> cmd, sub |-> sub, e |-> e, res |-> res, after |-> after,
   called |-> 0, tried |-> FALSE, added |-> FALSE, n |-> 0, deleted |-> FALSE,
   fanout |-> FALSE, sched |-> {}, backfill |-> <<>>, due |-> {},
   held |-> FALSE, listening |-> {}]

NoOp == Op(0, "", "", 0, "", Prev("", "", ""))

PrevOf(op) == Prev(op.cmd, op.sub, op.res)

\* ----------------------------------------------------- construction
\* The pubkey argument: None, a value Keys.is_key accepts, values it does not.
None == "None"
Pubkeys == {None, "key", "junk", ""}

is_key(pubkey) == pubkey = "key"

Given(pubkey, nip09, nip16) ==
  [pubkey |-> pubkey, is_NIP09 |-> nip09, is_NIP16 |-> nip16]

Givens == {Given(p, a, b) : p \in Pubkeys, a \in BOOLEAN, b \in BOOLEAN}

\* list.sort() of a list of numbers, by insertion
RECURSIVE Insert(_, _)
Insert(x, sorted) ==
  IF sorted = <<>> THEN <<x>>
  ELSE IF x <= Head(sorted) THEN <<x>> \o sorted
  ELSE <<Head(sorted)>> \o Insert(x, Tail(sorted))

RECURSIVE sort(_)
sort(l) == IF l = <<>> THEN <<>> ELSE Insert(Head(l), sort(Tail(l)))

\* lines 103-109: the nips in the order they are appended
Appended(nip15, nip09, nip16) ==
  <<1, 2, 11>> \o (IF nip15 THEN <<15>> ELSE <<>>)
               \o (IF nip09 THEN <<9>> ELSE <<>>)
               \o (IF nip16 THEN <<16>> ELSE <<>>)

\* a list left in the order of the appends
NipsUnsorted(nip15, nip09, nip16) == Appended(nip15, nip09, nip16)

\* lines 103-111
Nips(nip15, nip09, nip16) == sort(Appended(nip15, nip09, nip16))

\* self._relay_information; built tells how __init__ ended: "no" (not run),
\* "yes" (returned) or "raised".  pubkey "absent": the document has no such
\* field.
Information(built, nips, pubkey) ==
  [built |-> built, supported_nips |-> nips, pubkey |-> pubkey]

Unbuilt == Information("no", <<>>, "absent")

\* lines 100-101 and 124-127: the two tests of the pubkey
RaisesAt100(pubkey) == pubkey # None /\ ~is_key(pubkey)
RaisesAt125(pubkey) == pubkey # None /\ is_key(pubkey)

\* lines 100-127: what __init__ leaves
InformationOf(g, nip15) ==
  IF RaisesAt100(g.pubkey) \/ RaisesAt125(g.pubkey)
  THEN Information("raised", <<>>, "absent")
  ELSE Information("yes", Nips(nip15, g.is_NIP09, g.is_NIP16),
                   IF g.pubkey # None THEN g.pubkey ELSE "absent")

\* Relay.__init__: no connection yet; the store handed in may hold events.
InitStores == { {}, {1, 2} }

EmptyMap == [k \in {} |-> 0]

\* Relay(store, ..., pubkey=...): __init__ runs
Construct ==
  /\ relay_information.built = "no"
  /\ relay_information' = InformationOf(given, enable_nip15)
  /\ ws_id' = 0
  /\ ws' = EmptyMap
  /\ UNCHANGED <<max_sub, enable_nip15, accept_req, store, ready, hpc, sock,
                 out, nmsgs, nacc, last, admitted, closed, given, resp>>

\* A store that deletes (NIP 9) and keeps every kind (no NIP 16), no pubkey
DefaultGiven == Given(None, TRUE, FALSE)

Init ==
  /\ ws_id = 0
  /\ ws = EmptyMap
  /\ max_sub \in 1..MaxMaxSub
  /\ enable_nip15 \in BOOLEAN
  /\ accept_req \in Chains
  /\ store \in InitStores
  /\ ready = <<>>
  /\ hpc = EmptyMap
  /\ sock = EmptyMap
  /\ out = EmptyMap
  /\ nmsgs = 0
  /\ nacc = 0
  /\ last = EmptyMap
  /\ admitted = {}
  /\ closed = EmptyMap
  /\ given = DefaultGiven
  /\ relay_information = InformationOf(given, enable_nip15)
  /\ resp = <<>>

\* ------------------------------------------------------ small helpers
Remove(w, c) == [k \in DOMAIN w \ {c} |-> w[k]]

HasSub(subs, sub_id) == \E i \in 1..Len(subs) : subs[i].id = sub_id

SubOf(subs, sub_id) == subs[CHOOSE i \in 1..Len(subs) : subs[i].id = sub_id]

Sub(sub_id, filter, gen) == [id |-> sub_id, filter |-> filter, gen |-> gen]

\* a CLOSE that leaves the subscription in place
DelSubKept(subs, sub_id) == subs

\* del self._ws[socket_id]['subs'][sub_id]
DelSub(subs, sub_id) == SelectSeq(subs, LAMBDA s : s.id # sub_id)

CanWrite(c) == sock[c] = "open"

\* ws.send_str(...) of a frame: written when the transport is there
Written(o, c, frames) ==
  IF CanWrite(c) THEN [o EXCEPT ![c] = o[c] \o frames] ELSE o

\* Where the handler of c stands once _do_request is over.  notice: the
\* NOTICE that _do_request sends outside of any try (NoFrame: none); when
\* that send raises, the exception leaves _websocket_handler before
\* "del self._ws[ws.id]".  Otherwise the handler is back in "async for",
\* which ends when the transport is gone.
HandlerEnd(c, notice) ==
  IF CanWrite(c) THEN "recv"
  ELSE IF notice # NoFrame THEN "crashed"
  ELSE "done"

\* del self._ws[ws.id], when the handler returns
TableEnd(w, c, notice) ==
  IF HandlerEnd(c, notice) = "done" THEN Remove(w, c) ELSE w

NoticeFrames(notice) == IF notice = NoFrame THEN <<>> ELSE <<notice>>

\* lines 381-383: the transports, after ws.send_str of the fan-out frame fr
\* raised on that of c if it cannot be written
Raised(sk, c, fr) ==
  IF CanWrite(c) \/ ~fr.live THEN sk ELSE [sk EXCEPT ![c] = "failed"]

\* ------------------------------------------------ _websocket_handler
\* lines 204-217: a websocket is accepted by the relay that was constructed
\* and entered in the table
Connect ==
  /\ relay_information.built = "yes"
  /\ ws_id < MaxConn
  /\ ws' = (ws_id :> [subs |-> <<>>]) @@ ws
  /\ hpc' = (ws_id :> Idle("recv")) @@ hpc
  /\ sock' = (ws_id :> "open") @@ sock
  /\ out' = (ws_id :> <<>>) @@ out
  /\ last' = (ws_id :> NoOp) @@ last
  /\ ws_id' = ws_id + 1
  /\ UNCHANGED <<info, max_sub, enable_nip15, accept_req, store, ready, nmsgs,
                 nacc, admitted, closed>>

\* every frame handed to a handler of its own as soon as it arrives
ArriveAnyTime(c, m) ==
  /\ c \in DOMAIN hpc
  /\ hpc[c].pc \in {"recv", "backfill"}
  /\ CanWrite(c)
  /\ nmsgs < MaxMsgs
  /\ nmsgs' = nmsgs + 1
  /\ hpc' = IF hpc[c].pc = "recv"
            THEN [hpc EXCEPT ![c] = Handler("woken", "", last[c].k + 1, <<>>)]
            ELSE hpc
  /\ ready' = Append(ready, HandlerTask(c, m))
  /\ UNCHANGED <<info, ws_id, ws, max_sub, enable_nip15, accept_req, store, sock,
                 out, nacc, last, admitted, closed>>

\* line 219: a text frame arrives and wakes the handler blocked in async for
Arrive(c, m) ==
  /\ c \in DOMAIN hpc
  /\ hpc[c].pc = "recv"
  /\ CanWrite(c)
  /\ nmsgs < MaxMsgs
  /\ nmsgs' = nmsgs + 1
  /\ hpc' = [hpc EXCEPT ![c] = Handler("woken", "", last[c].k + 1, <<>>)]
  /\ ready' = Append(ready, HandlerTask(c, m))
  /\ UNCHANGED <<info, ws_id, ws, max_sub, enable_nip15, accept_req, store, sock,
                 out, nacc, last, admitted, closed>>

\* the peer goes away: writes to the websocket raise from now on, and a
\* handler blocked in async for is woken with the end of the stream
Drop(c) ==
  /\ c \in DOMAIN sock
  /\ CanWrite(c)
  /\ sock' = [sock EXCEPT ![c] = "closed"]
  /\ IF hpc[c].pc = "recv"
     THEN /\ hpc' = [hpc EXCEPT ![c] = Idle("woken")]
          /\ ready' = Append(ready, HandlerTask(c, Msg("EOF", "", NoFilter, 0)))
     ELSE UNCHANGED <<hpc, ready>>
  /\ UNCHANGED <<info, ws_id, ws, max_sub, enable_nip15, accept_req, store, out,
                 nmsgs, nacc, last, admitted, closed>>

\* lines 204-206 and 403-408: a GET that is no websocket upgrade is answered
\* with the information document
Get ==
  /\ relay_information.built = "yes"
  /\ Len(resp) < MaxGets
  /\ resp' = Append(resp, relay_information)
  /\ UNCHANGED <<ws_id, ws, max_sub, enable_nip15, accept_req, store, ready,
                 hpc, sock, out, nmsgs, nacc, last, admitted, closed, given,
                 relay_information>>

\* lines 227-231: async for is over, the connection leaves the table
RunEOF ==
  /\ ready # <<>>
  /\ LET h == Head(ready) IN
     /\ h.t = "H"
     /\ h.msg.cmd = "EOF"
     /\ ws' = Remove(ws, h.c)
     /\ hpc' = [hpc EXCEPT ![h.c] = Idle("done")]
     /\ ready' = Tail(ready)
  /\ UNCHANGED <<info, ws_id, max_sub, enable_nip15, accept_req, store, sock, out,
                 nmsgs, nacc, last, admitted, closed>>

\* ------------------------------------------------------- _check_subs
\* a fan-out that does not test the filter
SubSendsUntested(c, subs, e, n) ==
  [i \in 1..Len(subs) |->
     SendEventTask(c, EventFrame(subs[i].id, e.id, subs[i].gen, n, TRUE), FALSE)]

\* lines 313-319: one _send_event task per subscription of socket c the
\* event passes, in the order of the subs dict
SubSends(c, subs, e, n) ==
  LET sel == SelectSeq(subs, LAMBDA s : test(e, s.filter))
  IN  [i \in 1..Len(sel) |->
         SendEventTask(c, EventFrame(sel[i].id, e.id, sel[i].gen, n, TRUE), FALSE)]

\* line 312: for socket_id in self._ws, the sockets in the order they were
\* entered, which is the order of their ids
RECURSIVE CheckSubsFrom(_, _, _, _)
CheckSubsFrom(w, k, e, n) ==
  IF k >= MaxConn THEN <<>>
  ELSE (IF k \in DOMAIN w THEN SubSends(k, w[k].subs, e, n) ELSE <<>>)
       \o CheckSubsFrom(w, k + 1, e, n)

\* the tasks _check_subs(evt) creates
check_subs(w, e, n) == CheckSubsFrom(w, 0, e, n)

Targets(tasks) == {<<tasks[i].c, tasks[i].fr.sub>> : i \in 1..Len(tasks)}

\* --------------------------------------------------------- _do_event
\* a duplicate reported by the store taken for a success
EventBranchDupAccepted(e, fault) ==
  IF ~e.ok THEN "invalid"
  ELSE IF AcceptLoop(accept_req, 1, e).raised THEN "rejected"
  ELSE IF fault = "add" THEN "fault"
  ELSE IF e.kind = KIND_DELETE /\ fault = "del" THEN "delfault"
  ELSE "ok"

\* the accept chain left out
EventBranchNoChain(e, fault) ==
  IF ~e.ok THEN "invalid"
  ELSE IF add_event_result(store, e, fault) = "duplicate" THEN "duplicate"
  ELSE IF add_event_result(store, e, fault) = "fault" THEN "fault"
  ELSE IF e.kind = KIND_DELETE /\ fault = "del" THEN "delfault"
  ELSE "ok"

\* What _do_event does with event e when the store behaves as `fault` says
\* ("none", "add": add_event raises a storage error, "del": do_delete
\* raises): res names the branch taken.
EventBranch(e, fault) ==
  IF ~e.ok THEN "invalid"                                   \* line 267
  ELSE IF AcceptLoop(accept_req, 1, e).raised THEN "rejected" \* line 273
  ELSE IF add_event_result(store, e, fault) = "duplicate"
       THEN "duplicate"                                     \* line 292
  ELSE IF add_event_result(store, e, fault) = "fault"
       THEN "fault"                                         \* line 294
  ELSE IF e.kind = KIND_DELETE /\ fault = "del" THEN "delfault"
  ELSE "ok"

\* line 276 was reached; it ran without raising
Tried(res) == res \in {"ok", "delfault", "duplicate", "fault"}
Added(res) == res \in {"ok", "delfault"}

\* the NOTICE _do_request sends for an EVENT frame
EventNotice(e, res) ==
  CASE res = "invalid"   -> NoticeFrame("invalid event, pubkey doesn't match sig", 0)
    [] res = "rejected"  -> NoticeFrame("rejected", AcceptLoop(accept_req, 1, e).called)
    [] res = "duplicate" -> NoticeFrame("event already exists", e.id)
    [] OTHER             -> NoFrame

\* an accepted event that is not persisted
StoreAfterEventNotKept(e, res) ==
  IF res = "ok" /\ e.kind = KIND_DELETE THEN do_delete(store, e) ELSE store

\* do_delete called for every kind 5 event that reached the store, stored
\* or not
StoreAfterEventDeletesAlways(e, res) ==
  IF Tried(res) /\ e.kind = KIND_DELETE
  THEN do_delete(IF Added(res) THEN add_event(store, e) ELSE store, e)
  ELSE IF Added(res) THEN add_event(store, e)
  ELSE store

\* the store after lines 276-280
StoreAfterEvent(e, res) ==
  IF ~Added(res) THEN store
  ELSE IF res = "ok" /\ e.kind = KIND_DELETE
       THEN do_delete(add_event(store, e), e)
  ELSE add_event(store, e)

\* the events posted and stored that no kind 5 event has removed since
AdmittedAfterEvent(e, res) ==
  IF ~Added(res) THEN admitted
  ELSE IF res = "ok" /\ e.kind = KIND_DELETE
       THEN (admitted \cup {e.id}) \ {e.etag}
  ELSE admitted \cup {e.id}

\* line 282: the fan-out runs when nothing raised before it
FanOut(e, res) ==
  IF res = "ok" THEN check_subs(ws, e, nacc + 1) ELSE <<>>

\* the subscriptions that pass e and are not being backfilled
Listening(e) ==
  {t \in (DOMAIN ws) \X SubIds \X (1..MaxMsgs) :
     /\ HasSub(ws[t[1]].subs, t[2])
     /\ SubOf(ws[t[1]].subs, t[2]).gen = t[3]
     /\ test(e, SubOf(ws[t[1]].subs, t[2]).filter)
     /\ ~(hpc[t[1]].pc = "backfill" /\ hpc[t[1]].gen = t[3])}

RunEvent(Faults) ==
  /\ ready # <<>>
  /\ LET h == Head(ready) IN
     /\ h.t = "H"
     /\ h.msg.cmd = "EVENT"
     /\ \E fault \in Faults :
          LET c      == h.c
              e      == Ev(h.msg.e)
              res    == EventBranch(e, fault)
              notice == EventNotice(e, res)
              sends  == FanOut(e, res)
          IN  /\ store' = StoreAfterEvent(e, res)
              /\ nacc' = IF Added(res) THEN nacc + 1 ELSE nacc
              /\ ready' = Tail(ready) \o sends
              /\ out' = Written(out, c, NoticeFrames(notice))
              /\ hpc' = [hpc EXCEPT ![c] = Idle(HandlerEnd(c, notice))]
              /\ ws' = TableEnd(ws, c, notice)
              /\ admitted' = AdmittedAfterEvent(e, res)
              /\ last' = [last EXCEPT ![c] =
                   [Op(hpc[c].gen, "EVENT", "", e.id, res, PrevOf(@)) EXCEPT
                      !.called  = IF e.ok THEN AcceptLoop(accept_req, 1, e).called ELSE 0,
                      !.tried   = Tried(res),
                      !.added   = Added(res),
                      !.n       = IF Added(res) THEN nacc + 1 ELSE 0,
                      !.deleted = Added(res) /\ e.kind = KIND_DELETE,
                      !.fanout  = res = "ok",
                      !.sched   = Targets(sends),
                      !.listening = Listening(e)]]
  /\ UNCHANGED <<info, ws_id, max_sub, enable_nip15, accept_req, sock, nmsgs,
                 closed>>

\* ----------------------------------------------------------- _do_sub
\* lines 329-331: no filter in the frame means {}
SubFilter(f) == IF Len(f) > 0 THEN f ELSE <<MatchAll>>

\* the limit tested one subscription too late
AtMaxLate(subs) == Len(subs) > max_sub

\* line 340: this sub would put the socket over max
AtMax(subs) == Len(subs) >= max_sub

\* duplicates looked for in the subscriptions of every socket
SubBranchAnySocket(subs, sub_id) ==
  IF sub_id = NoSubId THEN "missing"
  ELSE IF \E k \in DOMAIN ws : HasSub(ws[k].subs, sub_id) THEN "exists"
  ELSE IF AtMax(subs) THEN "max"
  ELSE "ok"

SubBranch(subs, sub_id) ==
  IF sub_id = NoSubId THEN "missing"             \* line 324
  ELSE IF HasSub(subs, sub_id) THEN "exists"     \* line 336
  ELSE IF AtMax(subs) THEN "max"                 \* line 340
  ELSE "ok"

SubNotice(res, sub_id) ==
  CASE res = "missing" -> NoticeFrame("REQ command missing sub_id", 0)
    [] res = "exists" -> NoticeFrame("REQ command for sub_id that already exists", 0)
    [] res = "max"    -> NoticeFrame("REQ new sub_id not allowed, already at max subs", 0)
    [] OTHER          -> NoFrame

\* lines 354-360, from the top of the loop to the next suspension: with an
\* event left, a _send_event task is created and awaited; with none left,
\* EOSE is sent (when enabled) through _do_send, which swallows a failing
\* write, and _do_sub returns.
BackfillTasks(c, sub_id, gen, evts) ==
  IF evts # <<>>
  THEN <<SendEventTask(c, EventFrame(sub_id, Head(evts), gen, 0, FALSE), TRUE)>>
  ELSE <<>>

BackfillFrames(sub_id, gen, evts) ==
  IF evts = <<>> /\ enable_nip15 THEN <<EoseFrame(sub_id, gen)>> ELSE <<>>

BackfillHandler(c, sub_id, gen, evts) ==
  IF evts # <<>>
  THEN Handler("backfill", sub_id, gen, Tail(evts))
  ELSE Idle(HandlerEnd(c, NoFrame))

BackfillTable(w, c, evts) ==
  IF evts # <<>> THEN w ELSE TableEnd(w, c, NoFrame)

RunReq ==
  /\ ready # <<>>
  /\ LET h == Head(ready) IN
     /\ h.t = "H"
     /\ h.msg.cmd = "REQ"
     /\ LET c      == h.c
            sub_id == h.msg.sub
            filter == SubFilter(h.msg.f)
            gen    == hpc[c].gen
            res    == SubBranch(ws[c].subs, sub_id)
            notice == SubNotice(res, sub_id)
            evts   == get_filter(store, filter)
            w1     == [ws EXCEPT ![c].subs = Append(@, Sub(sub_id, filter, gen))]
        IN  IF res = "ok"
            THEN /\ ws' = BackfillTable(w1, c, evts)
                 /\ ready' = Tail(ready) \o BackfillTasks(c, sub_id, gen, evts)
                 /\ out' = Written(out, c, BackfillFrames(sub_id, gen, evts))
                 /\ hpc' = [hpc EXCEPT ![c] = BackfillHandler(c, sub_id, gen, evts)]
                 /\ last' = [last EXCEPT ![c] =
                      [Op(gen, "REQ", sub_id, 0, res, PrevOf(@)) EXCEPT
                         !.backfill = evts,
                         !.due = {i \in admitted : test(Ev(i), filter)}]]
            ELSE /\ ws' = TableEnd(ws, c, notice)
                 /\ ready' = Tail(ready)
                 /\ out' = Written(out, c, <<notice>>)
                 /\ hpc' = [hpc EXCEPT ![c] = Idle(HandlerEnd(c, notice))]
                 /\ last' = [last EXCEPT ![c] =
                      [Op(gen, "REQ", sub_id, 0, res, PrevOf(@)) EXCEPT
                         !.held = HasSub(ws[c].subs, sub_id)]]
  /\ UNCHANGED <<info, ws_id, max_sub, enable_nip15, accept_req, store, sock,
                 nmsgs, nacc, admitted, closed>>

\* line 356: the awaited _send_event task is done, _do_sub goes on
RunWake ==
  /\ ready # <<>>
  /\ LET h == Head(ready) IN
     /\ h.t = "W"
     /\ LET c == h.c
            p == hpc[c]
        IN  /\ ws' = BackfillTable(ws, c, p.evts)
            /\ ready' = Tail(ready) \o BackfillTasks(c, p.sub, p.gen, p.evts)
            /\ out' = Written(out, c, BackfillFrames(p.sub, p.gen, p.evts))
            /\ hpc' = [hpc EXCEPT ![c] = BackfillHandler(c, p.sub, p.gen, p.evts)]
  /\ UNCHANGED <<info, ws_id, max_sub, enable_nip15, accept_req, store, sock,
                 nmsgs, nacc, last, admitted, closed>>

\* --------------------------------------------------------- _do_unsub
UnsubBranch(subs, sub_id) ==
  IF sub_id = NoSubId THEN "missing"             \* line 364
  ELSE IF ~HasSub(subs, sub_id) THEN "unknown"   \* line 371
  ELSE "ok"

\* line 375
UnsubSubs(subs, sub_id, res) ==
  IF res = "ok" THEN DelSub(subs, sub_id) ELSE subs

\* lines 365, 372, 377: every outcome is reported by a NOTICE
UnsubNotice(subs, sub_id, res) ==
  IF res = "ok"
  THEN [NoticeFrame("CLOSE command for sub_id - success", 0)
          EXCEPT !.gen = SubOf(subs, sub_id).gen]
  ELSE IF res = "missing"
  THEN NoticeFrame("REQ command missing sub_id", 0)
  ELSE NoticeFrame("CLOSE command for sub_id that not subscribed to, nothing to do", 0)

\* the subscription a successful CLOSE removed, by its socket and the number
\* of the REQ that created it, with the number of events accepted until then
ClosedAfter(subs, c, sub_id, res) ==
  IF res = "ok"
  THEN (<<c, SubOf(subs, sub_id).gen>> :>
          [c |-> c, sub |-> sub_id, filter |-> SubOf(subs, sub_id).filter,
           n |-> nacc]) @@ closed
  ELSE closed

RunClose ==
  /\ ready # <<>>
  /\ LET h == Head(ready) IN
     /\ h.t = "H"
     /\ h.msg.cmd = "CLOSE"
     /\ LET c      == h.c
            sub_id == h.msg.sub
            res    == UnsubBranch(ws[c].subs, sub_id)
            notice == UnsubNotice(ws[c].subs, sub_id, res)
            w1     == [ws EXCEPT ![c].subs = UnsubSubs(@, sub_id, res)]
        IN  /\ ws' = TableEnd(w1, c, notice)
            /\ ready' = Tail(ready)
            /\ out' = Written(out, c, <<notice>>)
            /\ hpc' = [hpc EXCEPT ![c] = Idle(HandlerEnd(c, notice))]
            /\ last' = [last EXCEPT ![c] =
                 [Op(hpc[c].gen, "CLOSE", sub_id, 0, res, PrevOf(@)) EXCEPT
                    !.held = HasSub(ws[c].subs, sub_id)]]
            /\ closed' = ClosedAfter(ws[c].subs, c, sub_id, res)
  /\ UNCHANGED <<info, ws_id, max_sub, enable_nip15, accept_req, store, sock,
                 nmsgs, nacc, admitted>>

\* ------------------------------------------- _send_event and _do_send
\* a _send_event that creates no _do_send task
RunSendEventLost ==
  /\ ready # <<>>
  /\ LET h == Head(ready) IN
     /\ h.t = "T"
     /\ ready' = Tail(ready) \o (IF h.wake THEN <<WakeTask(h.c)>> ELSE <<>>)
  /\ UNCHANGED <<info, ws_id, ws, max_sub, enable_nip15, accept_req, store,
                 hpc, sock, out, nmsgs, nacc, last, admitted, closed>>

\* the handler that awaits _send_event resumed ahead of the _do_send task
RunSendEventWakeFirst ==
  /\ ready # <<>>
  /\ LET h == Head(ready) IN
     /\ h.t = "T"
     /\ ready' = Tail(ready) \o (IF h.wake THEN <<WakeTask(h.c)>> ELSE <<>>)
                   \o <<DoSendTask(h.c, h.fr)>>
  /\ UNCHANGED <<info, ws_id, ws, max_sub, enable_nip15, accept_req, store, hpc,
                 sock, out, nmsgs, nacc, last, admitted, closed>>

\* lines 385-391: _send_event creates the _do_send task and returns without
\* awaiting it; its completion wakes the _do_sub that awaits it
RunSendEvent ==
  /\ ready # <<>>
  /\ LET h == Head(ready) IN
     /\ h.t = "T"
     /\ ready' = Tail(ready) \o <<DoSendTask(h.c, h.fr)>>
                   \o (IF h.wake THEN <<WakeTask(h.c)>> ELSE <<>>)
  /\ UNCHANGED <<info, ws_id, ws, max_sub, enable_nip15, accept_req, store, hpc,
                 sock, out, nmsgs, nacc, last, admitted, closed>>

\* _do_send tasks run in any order instead of the order of their creation
RunDoSendAnyOrder ==
  /\ \E i \in 1..Len(ready) :
       /\ ready[i].t = "D"
       /\ out' = Written(out, ready[i].c, <<ready[i].fr>>)
       /\ sock' = Raised(sock, ready[i].c, ready[i].fr)
       /\ ready' = SubSeq(ready, 1, i - 1) \o SubSeq(ready, i + 1, Len(ready))
  /\ UNCHANGED <<info, ws_id, ws, max_sub, enable_nip15, accept_req, store, hpc,
                 nmsgs, nacc, last, admitted, closed>>

\* lines 379-383: the frame is written; a failing write is logged, and
\* nothing else is done about it
RunDoSend ==
  /\ ready # <<>>
  /\ LET h == Head(ready) IN
     /\ h.t = "D"
     /\ out' = Written(out, h.c, <<h.fr>>)
     /\ sock' = Raised(sock, h.c, h.fr)
     /\ ready' = Tail(ready)
  /\ UNCHANGED <<info, ws_id, ws, max_sub, enable_nip15, accept_req, store, hpc,
                 nmsgs, nacc, last, admitted, closed>>

\* ------------------------------------------------------- _do_request
\* The text frames that are no EVENT, REQ or CLOSE command, by what
\* _do_request meets in them:
\*   "EMPTY_STR"  the empty string
\*   "NOT_JSON"   text json.loads cannot decode
\*   "FALSY"      JSON that is falsy: [], {}, null, 0, ""
\*   "NO_INDEX"   JSON with no element 0 to read: a non-empty object, a
\*                number, true
\*   "VERB"       an array whose first element is no valid command
OtherCmds == {"EMPTY_STR", "NOT_JSON", "FALSY", "NO_INDEX", "VERB"}

\* lines 235-244: how _do_request leaves for such a frame
RequestBranch(cmd) ==
  CASE cmd = "EMPTY_STR" -> "return"        \* line 236
    [] cmd = "NOT_JSON"  -> "decode"        \* line 239 raises JSONDecodeError
    [] cmd = "FALSY"     -> "nocommand"     \* line 241
    [] cmd = "NO_INDEX"  -> "raise"         \* line 242 raises KeyError, TypeError
    [] OTHER             -> "unsupported"   \* line 244

\* lines 255-260: the NOTICE of the two except clauses
RequestNotice(res) ==
  CASE res = "decode"      -> NoticeFrame("unable to decode command string", 0)
    [] res = "nocommand"   -> NoticeFrame("No command received", 0)
    [] res = "unsupported" -> NoticeFrame("unsupported command", 0)
    [] OTHER               -> NoFrame

\* An exception neither except clause names leaves _do_request and
\* _websocket_handler: the handler is over, line 229 is not reached, and the
\* server closes the transport of the handler that raised.
RunOther ==
  /\ ready # <<>>
  /\ LET h == Head(ready) IN
     /\ h.t = "H"
     /\ h.msg.cmd \in OtherCmds
     /\ LET c      == h.c
            res    == RequestBranch(h.msg.cmd)
            notice == RequestNotice(res)
        IN  /\ ready' = Tail(ready)
            /\ out' = Written(out, c, NoticeFrames(notice))
            /\ last' = [last EXCEPT ![c] =
                 Op(hpc[c].gen, h.msg.cmd, "", 0, res, PrevOf(@))]
            /\ IF res = "raise"
               THEN /\ hpc' = [hpc EXCEPT ![c] = Idle("crashed")]
                    /\ sock' = [sock EXCEPT ![c] = "closed"]
                    /\ ws' = ws
               ELSE /\ hpc' = [hpc EXCEPT ![c] = Idle(HandlerEnd(c, notice))]
                    /\ sock' = sock
                    /\ ws' = TableEnd(ws, c, notice)
  /\ UNCHANGED <<info, ws_id, max_sub, enable_nip15, accept_req, store, nmsgs,
                 nacc, admitted, closed>>

\* ------------------------------------------------------ specification
Conns == 0..(MaxConn - 1)

EventMsg(i) == Msg("EVENT", "", NoFilter, i)
ReqMsg(sub_id, f) == Msg("REQ", sub_id, f, 0)
CloseMsg(sub_id) == Msg("CLOSE", sub_id, NoFilter, 0)

\* Subscriptions only: REQ and CLOSE frames on any connection, an empty
\* store, peers that go away.
MsgsSub ==
  {ReqMsg(s, f) : s \in SubIds, f \in {<<>>, <<KindFilter({1})>>}}
  \cup {CloseMsg(s) : s \in SubIds}
  \cup {ReqMsg(NoSubId, <<>>), CloseMsg(NoSubId)}

InitSub ==
  /\ Init
  /\ store = {}
  /\ accept_req = <<AcceptReqHandler>>

NextSub ==
  \/ Connect
  \/ \E c \in Conns, m \in MsgsSub : Arrive(c, m)
  \/ \E c \in Conns : Drop(c)
  \/ RunEOF
  \/ RunReq
  \/ RunClose

SpecSub == InitSub /\ [][NextSub]_vars

\* Backfill and live delivery: subscription "x" is opened and closed with
\* different filters while valid events are posted and peers go away.
MsgsLive ==
  {EventMsg(i) : i \in {1, 3}}
  \cup {ReqMsg("x", f) : f \in {<<>>, <<KindFilter({KIND_DELETE})>>}}
  \cup {CloseMsg("x")}

InitLive ==
  /\ Init
  /\ max_sub = 1
  /\ accept_req = <<AcceptReqHandler>>

NextLive ==
  \/ Connect
  \/ \E c \in Conns, m \in MsgsLive : Arrive(c, m)
  \/ \E c \in Conns : Drop(c)
  \/ RunEOF
  \/ RunEvent({"none"})
  \/ RunReq
  \/ RunClose
  \/ RunWake
  \/ RunSendEvent
  \/ RunDoSend

SpecLive == InitLive /\ [][NextLive]_vars

\* Posting: every event, every accept chain, a store that may fail, one
\* match-all subscription to see the fan-out and the backfill.
MsgsPost ==
  {EventMsg(i) : i \in EventIds} \cup {ReqMsg("x", <<>>)}

InitPost ==
  /\ Init
  /\ max_sub = 1
  /\ enable_nip15

NextPost ==
  \/ Connect
  \/ \E c \in Conns, m \in MsgsPost : Arrive(c, m)
  \/ \E c \in Conns : Drop(c)
  \/ RunEOF
  \/ RunEvent({"none", "add", "del"})
  \/ RunReq
  \/ RunWake
  \/ RunSendEvent
  \/ RunDoSend

SpecPost == InitPost /\ [][NextPost]_vars

\* Frames that are no command, between REQ and CLOSE frames, on an empty
\* store.
OtherMsg(cmd) == Msg(cmd, "", NoFilter, 0)

MsgsOther ==
  {OtherMsg(cmd) : cmd \in OtherCmds} \cup {ReqMsg("x", <<>>), CloseMsg("x")}

InitOther ==
  /\ Init
  /\ max_sub = 1
  /\ store = {}
  /\ accept_req = <<AcceptReqHandler>>

NextOther ==
  \/ Connect
  \/ \E c \in Conns, m \in MsgsOther : Arrive(c, m)
  \/ \E c \in Conns : Drop(c)
  \/ RunEOF
  \/ RunReq
  \/ RunClose
  \/ RunOther

SpecOther == InitOther /\ [][NextOther]_vars

\* Delivery under a fair event loop: a store that starts empty, posts of
\* two events that nothing deletes, match-all subscriptions with EOSE.  The loop runs the task at the head of its
\* queue as long as there is one; when frames arrive and peers go away is
\* up to the clients.
MsgsFair == {EventMsg(1), EventMsg(2), ReqMsg("x", <<>>)}

InitFair ==
  /\ Init
  /\ max_sub = 1
  /\ enable_nip15
  /\ store = {}
  /\ accept_req = <<AcceptReqHandler>>

Loop ==
  \/ RunEOF
  \/ RunEvent({"none"})
  \/ RunReq
  \/ RunWake
  \/ RunSendEvent
  \/ RunDoSend

NextFair ==
  \/ Connect
  \/ \E c \in Conns, m \in MsgsFair : Arrive(c, m)
  \/ \E c \in Conns : Drop(c)
  \/ Loop

SpecFair == InitFair /\ [][NextFair]_vars /\ WF_vars(Loop)

\* Construction and the information document: the relay is constructed
\* with any pubkey and any store, then answers GET requests and accepts
\* websockets.
Built == relay_information.built = "yes"

InitInfo ==
  /\ ws_id = 0
  /\ ws = EmptyMap
  /\ max_sub = 1
  /\ enable_nip15 \in BOOLEAN
  /\ accept_req = <<AcceptReqHandler>>
  /\ store = {}
  /\ ready = <<>>
  /\ hpc = EmptyMap
  /\ sock = EmptyMap
  /\ out = EmptyMap
  /\ nmsgs = 0
  /\ nacc = 0
  /\ last = EmptyMap
  /\ admitted = {}
  /\ closed = EmptyMap
  /\ given \in Givens
  /\ relay_information = Unbuilt
  /\ resp = <<>>

NextInfo ==
  \/ Construct
  \/ Get
  \/ Connect
  \/ \E c \in Conns : Arrive(c, ReqMsg("x", <<>>))
  \/ \E c \in Conns : Drop(c)
  \/ RunEOF
  \/ RunReq

SpecInfo == InitInfo /\ [][NextInfo]_vars

\* ========================================================== properties
LastIs(c, frame) == out[c] # <<>> /\ out[c][Len(out[c])] = frame

HandlerIdle(c) == hpc[c].pc \in {"recv", "woken"}

\* C1: in every reachable state every connection of the table holds at most
\* max_sub subscriptions, and a REQ refused for the limit is answered with
\* the NOTICE about the limit.
C1_SubsWithinMax ==
  \A c \in DOMAIN ws :
    /\ Len(ws[c].subs) <= max_sub
    /\ (last[c].cmd = "REQ" /\ last[c].res = "max" /\ HandlerIdle(c))
         => LastIs(c, NoticeFrame("REQ new sub_id not allowed, already at max subs", 0))

\* a REQ was refused on a connection that holds max_sub subscriptions
C1_Witness ==
  \E c \in DOMAIN ws :
    /\ last[c].cmd = "REQ"
    /\ last[c].res = "max"
    /\ Len(ws[c].subs) = max_sub

\* C7: a REQ handled right after a successful CLOSE on the same connection
\* succeeds when it names the sub_id just closed, and when it names any
\* sub_id the connection does not hold.
C7_ReqAfterClose ==
  \A c \in DOMAIN last :
    (last[c].cmd = "REQ" /\ last[c].after.cmd = "CLOSE" /\ last[c].after.res = "ok")
      => /\ last[c].sub = last[c].after.sub => last[c].res = "ok"
         /\ (last[c].sub # NoSubId /\ ~last[c].held) => last[c].res = "ok"

\* REQ x, CLOSE x, REQ x on a connection that is at max_sub again
C7_Witness ==
  \E c \in DOMAIN ws :
    /\ last[c].cmd = "REQ"
    /\ last[c].res = "ok"
    /\ last[c].after = Prev("CLOSE", last[c].sub, "ok")
    /\ Len(ws[c].subs) = max_sub

\* C2: with enable_nip15, a live EVENT frame of a subscription is written
\* only after the EOSE frame of that subscription.
C2_EoseBeforeLive ==
  enable_nip15 =>
    \A c \in DOMAIN out : \A i \in 1..Len(out[c]) :
      (out[c][i].type = "EVENT" /\ out[c][i].live)
        => \E j \in 1..(i - 1) : out[c][j] = EoseFrame(out[c][i].sub, out[c][i].gen)

\* the backfill EVENT frames written to c for the subscription of REQ g
BackfillOf(c, g) ==
  SelectSeq(out[c], LAMBDA f : f.type = "EVENT" /\ ~f.live /\ f.gen = g)

EventIdsOf(frames) == [i \in 1..Len(frames) |-> frames[i].e]

\* C3: the backfill frames of an accepted REQ are the events get_filter
\* returned, one frame each and in that order; all but the latest send
\* issued are written when the next is issued; the EOSE frame comes after
\* every backfill frame, and once the REQ is handled on a socket that takes
\* writes all of them are written.
C3_BackfillInOrder ==
  \A c \in DOMAIN last :
    LET op     == last[c]
        B      == EventIdsOf(BackfillOf(c, op.k))
        issued == Len(op.backfill) - Len(hpc[c].evts)
        eose   == {j \in 1..Len(out[c]) : out[c][j] = EoseFrame(op.sub, op.k)}
    IN  (op.cmd = "REQ" /\ op.res = "ok") =>
          /\ Len(B) <= Len(op.backfill)
          /\ B = SubSeq(op.backfill, 1, Len(B))
          /\ (hpc[c].pc = "backfill" /\ CanWrite(c)) => Len(B) >= issued - 1
          /\ (HandlerIdle(c) /\ CanWrite(c))
               => /\ B = op.backfill
                  /\ enable_nip15 => eose # {}
          /\ Cardinality(eose) <= 1
          /\ eose # {} => enable_nip15 /\ B = op.backfill
          /\ \A j \in eose : \A i \in 1..Len(out[c]) :
               (out[c][i].type = "EVENT" /\ ~out[c][i].live /\ out[c][i].gen = op.k)
                 => i < j

\* a REQ whose backfill of two events and EOSE are written
C3_Witness ==
  \E c \in DOMAIN last :
    /\ last[c].cmd = "REQ"
    /\ last[c].res = "ok"
    /\ Len(last[c].backfill) = 2
    /\ EventIdsOf(BackfillOf(c, last[c].k)) = last[c].backfill
    /\ LastIs(c, EoseFrame(last[c].sub, last[c].k))

\* The tasks a step adds to the ready queue
NewTasks ==
  IF ready' = ready THEN <<>>
  ELSE IF Len(ready') > Len(ready) /\ SubSeq(ready', 1, Len(ready)) = ready
       THEN SubSeq(ready', Len(ready) + 1, Len(ready'))
  ELSE SubSeq(ready', Len(ready), Len(ready'))

\* the frame a step writes to c
WritesTo(c) == Len(out'[c]) = Len(out[c]) + 1
NewFrame(c) == out'[c][Len(out'[c])]

\* in table w, the socket of task t holds the subscription t was created
\* for, and the event of t passes its filter
Holds(w, t) ==
  /\ t.c \in DOMAIN w
  /\ HasSub(w[t.c].subs, t.fr.sub)
  /\ SubOf(w[t.c].subs, t.fr.sub).gen = t.fr.gen
  /\ test(Ev(t.fr.e), SubOf(w[t.c].subs, t.fr.sub).filter)

\* C4 as claimed: when an EVENT frame is written to c, c holds a subscription
\* with that sub_id and the event passes its current filter.
C4_MatchAtWrite ==
  [][\A c \in DOMAIN out :
       (WritesTo(c) /\ NewFrame(c).type = "EVENT")
         => /\ c \in DOMAIN ws
            /\ HasSub(ws[c].subs, NewFrame(c).sub)
            /\ test(Ev(NewFrame(c).e), SubOf(ws[c].subs, NewFrame(c).sub).filter)]_vars

\* C4 as amended: an EVENT frame is written only by the _do_send task that
\* the _send_event task of that frame created, and when a _send_event task
\* is created its socket holds the subscription and the event passes the
\* filter of that subscription.
C4_MatchAtSchedule ==
  [][/\ \A c \in DOMAIN out :
          (WritesTo(c) /\ NewFrame(c).type = "EVENT")
            => Head(ready) = DoSendTask(c, NewFrame(c))
     /\ \A i \in 1..Len(NewTasks) :
          /\ NewTasks[i].t = "D"
               => /\ Head(ready).t = "T"
                  /\ NewTasks[i] = DoSendTask(Head(ready).c, Head(ready).fr)
          /\ NewTasks[i].t = "T"
               => Holds(ws, NewTasks[i]) \/ Holds(ws', NewTasks[i])]_vars

\* an EVENT frame of a subscription was written after the NOTICE that
\* reports its CLOSE
C4_Witness ==
  \E c \in DOMAIN out : \E i, j \in 1..Len(out[c]) :
    /\ i < j
    /\ out[c][i].type = "NOTICE"
    /\ out[c][i].gen # 0
    /\ out[c][j].type = "EVENT"
    /\ out[c][j].gen = out[c][i].gen

\* C5: the live frames written to one socket for one subscription are in
\* the order in which the store accepted their events.
C5_LiveInAcceptOrder ==
  \A c \in DOMAIN out : \A i, j \in 1..Len(out[c]) :
    ( /\ i < j
      /\ out[c][i].type = "EVENT" /\ out[c][i].live
      /\ out[c][j].type = "EVENT" /\ out[c][j].live
      /\ out[c][i].sub = out[c][j].sub
      /\ out[c][i].gen = out[c][j].gen )
    => out[c][i].n < out[c][j].n

\* two live frames of one subscription are written
C5_Witness ==
  \E c \in DOMAIN out : \E i, j \in 1..Len(out[c]) :
    /\ i < j
    /\ out[c][i].type = "EVENT" /\ out[c][i].live
    /\ out[c][j].type = "EVENT" /\ out[c][j].live
    /\ out[c][i].gen = out[c][j].gen

\* C6: every live send of a subscription that a CLOSE removed is for an
\* event accepted before that CLOSE, be it still queued or written.
C6_NoSendAfterClose ==
  /\ \A i \in 1..Len(ready) :
       (ready[i].fr.live /\ <<ready[i].c, ready[i].fr.gen>> \in DOMAIN closed)
         => ready[i].fr.n <= closed[<<ready[i].c, ready[i].fr.gen>>].n
  /\ \A c \in DOMAIN out : \A i \in 1..Len(out[c]) :
       (out[c][i].live /\ <<c, out[c][i].gen>> \in DOMAIN closed)
         => out[c][i].n <= closed[<<c, out[c][i].gen>>].n

\* an event that passes the filter of a closed subscription was accepted
\* after the CLOSE and fanned out, and no send was created for that sub_id
C6_Witness ==
  \E g \in DOMAIN closed : \E p \in DOMAIN last :
    /\ last[p].cmd = "EVENT"
    /\ last[p].fanout
    /\ last[p].n > closed[g].n
    /\ test(Ev(last[p].e), closed[g].filter)
    /\ <<closed[g].c, closed[g].sub>> \notin last[p].sched
    /\ closed[g].c \in DOMAIN ws

\* the handler of c handles an EVENT frame in this step
HandlesEvent(c) == last'[c].k # last[c].k /\ last'[c].cmd = "EVENT"

\* what the handling of a refused EVENT frame by c leaves behind: the store
\* and the other sockets as they were, no task created, the NOTICE written
\* to c when c takes writes, c in the table and reading
RefusedWith(c, notice) ==
  /\ store' = store
  /\ NewTasks = <<>>
  /\ ~last'[c].added /\ ~last'[c].deleted /\ ~last'[c].fanout
  /\ \A d \in DOMAIN out \ {c} : out'[d] = out[d]
  /\ CanWrite(c) => /\ out'[c] = Append(out[c], notice)
                    /\ ws' = ws
                    /\ hpc'[c].pc = "recv"

DuplicateNotice(c) == NoticeFrame("event already exists", last'[c].e)

\* C8 as claimed: posting an event whose id is in the store leaves the store
\* unchanged, sends the poster the one NOTICE "event already exists: <id>",
\* calls neither do_delete nor the fan-out, and leaves the connection open.
C8_DuplicateRefused ==
  [][\A c \in DOMAIN last :
       (HandlesEvent(c) /\ last'[c].e \in store)
         => RefusedWith(c, DuplicateNotice(c))]_vars

\* C8 as amended: the same for an event that is valid and that every policy
\* of the accept chain accepts.
C8_AcceptedDuplicateRefused ==
  [][\A c \in DOMAIN last :
       ( /\ HandlesEvent(c)
         /\ last'[c].e \in store
         /\ Ev(last'[c].e).ok
         /\ \A i \in 1..Len(accept_req) : last'[c].e \notin accept_req[i] )
         => RefusedWith(c, DuplicateNotice(c))]_vars

\* a duplicate was refused with its NOTICE while another connection holds a
\* subscription the event passes
C8_Witness ==
  \E c \in DOMAIN ws :
    /\ last[c].cmd = "EVENT"
    /\ last[c].res = "duplicate"
    /\ hpc[c].pc = "recv"
    /\ LastIs(c, NoticeFrame("event already exists", last[c].e))
    /\ \E d \in DOMAIN ws \ {c} : \E i \in 1..Len(ws[d].subs) :
         test(Ev(last[c].e), ws[d].subs[i].filter)

\* the policies of the chain that reject event id i
Rejecting(i) == {j \in 1..Len(accept_req) : i \in accept_req[j]}

FirstRejecting(i) == CHOOSE j \in Rejecting(i) : \A k \in Rejecting(i) : j <= k

\* C9: add_event is called only for a valid event that every policy, invoked
\* in order, accepted; for an invalid event no policy is invoked, for a
\* rejected one the policies up to the first that rejects; in both cases the
\* store is not touched, there is no fan-out and the poster gets the NOTICE,
\* which for a rejection is the one of the rejecting policy.
C9_ValidAndAcceptedOnly ==
  [][\A c \in DOMAIN last :
       HandlesEvent(c) =>
         LET op == last'[c]
             e  == Ev(op.e)
         IN  /\ op.tried => /\ e.ok
                            /\ Rejecting(e.id) = {}
                            /\ op.called = Len(accept_req)
             /\ ~e.ok => /\ op.called = 0
                         /\ ~op.tried
                         /\ RefusedWith(c,
                              NoticeFrame("invalid event, pubkey doesn't match sig", 0))
             /\ (e.ok /\ Rejecting(e.id) # {})
                  => /\ op.called = FirstRejecting(e.id)
                     /\ ~op.tried
                     /\ RefusedWith(c, NoticeFrame("rejected", FirstRejecting(e.id)))]_vars

\* an event was rejected by the second policy of a chain of two, and an
\* invalid event was refused
C9_Witness ==
  \E c, d \in DOMAIN last :
    /\ last[c].cmd = "EVENT"
    /\ last[c].res = "rejected"
    /\ last[c].called = 2
    /\ LastIs(c, NoticeFrame("rejected", 2))
    /\ last[d].cmd = "EVENT"
    /\ last[d].res = "invalid"

Range(f) == {f[i] : i \in DOMAIN f}

HandlesOther(c) ==
  /\ last'[c].k # last[c].k
  /\ last'[c].cmd \in OtherCmds
  /\ CanWrite(c)

\* C11: for every text frame that is not a well-formed command (no JSON, JSON
\* that is not a non-empty array, an empty message, an unknown verb) the
\* relay sends a NOTICE on the same socket, the connection stays open and
\* keeps reading, and the connection table, the subscriptions and the store
\* are unchanged.
C11_MalformedNoticed ==
  [][\A c \in DOMAIN last :
       HandlesOther(c) =>
         /\ WritesTo(c)
         /\ NewFrame(c).type = "NOTICE"
         /\ hpc'[c].pc = "recv"
         /\ sock'[c] = "open"
         /\ ws' = ws
         /\ store' = store]_vars

\* C12: when store.add_event fails with an error other than a duplicate id,
\* the poster is sent a NOTICE with a generic message, the connection
\* remains open, and no fan-out is triggered for that event.
C12_FaultNoticed ==
  [][\A c \in DOMAIN last :
       (HandlesEvent(c) /\ last'[c].res = "fault" /\ CanWrite(c)) =>
         /\ WritesTo(c)
         /\ NewFrame(c).type = "NOTICE"
         /\ hpc'[c].pc = "recv"
         /\ ~last'[c].fanout]_vars

\* C13: constructing the relay fails if and only if a pubkey is given and it
\* does not pass is_key; with a pubkey that passes, construction succeeds and
\* the information document contains that pubkey; with no pubkey,
\* construction succeeds and the document has no pubkey field.
C13_PubkeyChecked ==
  relay_information.built # "no" =>
    /\ relay_information.built = "raised"
         <=> (given.pubkey # None /\ ~is_key(given.pubkey))
    /\ (given.pubkey # None /\ is_key(given.pubkey))
         => relay_information.pubkey = given.pubkey
    /\ given.pubkey = None => relay_information.pubkey = "absent"

\* the nips of the document, as a set
NipSet(doc) == {doc.supported_nips[i] : i \in 1..Len(doc.supported_nips)}

IsSortedAscending(l) == \A i \in 1..(Len(l) - 1) : l[i] < l[i + 1]

\* C14: for every combination of enable_eose, is_NIP09() and is_NIP16() the
\* supported_nips of the information document are sorted ascending, contain
\* 1, 2 and 11, contain 9 iff is_NIP09(), 15 iff enable_eose, 16 iff
\* is_NIP16(), and nothing else; a GET without upgrade returns this document
\* and creates no connection entry.
C14_SupportedNips ==
  /\ [](Built =>
          /\ IsSortedAscending(relay_information.supported_nips)
          /\ NipSet(relay_information) =
               {1, 2, 11} \cup (IF given.is_NIP09 THEN {9} ELSE {})
                          \cup (IF enable_nip15 THEN {15} ELSE {})
                          \cup (IF given.is_NIP16 THEN {16} ELSE {})
          /\ \A i \in 1..Len(resp) : resp[i] = relay_information)
  /\ [][Len(resp') > Len(resp) =>
          /\ resp'[Len(resp')] = relay_information
          /\ ws' = ws
          /\ ws_id' = ws_id
          /\ hpc' = hpc]_vars

\* a relay with NIP 15 and NIP 9, and one without NIP 9 but with NIP 16, have
\* answered a GET while a websocket was connected
C14_Witness ==
  /\ Built
  /\ resp # <<>>
  /\ ws_id > 0
  /\ enable_nip15
  /\ given.is_NIP09
  /\ ~given.is_NIP16
  /\ relay_information.supported_nips = <<1, 2, 9, 11, 15>>

\* connection b posted event e, which was stored, while connection a held
\* subscription "x" of its REQ number gen, with a filter that passes e and
\* its backfill over
PostedFor(a, e, gen) ==
  \E b \in DOMAIN last :
    /\ last[b].cmd = "EVENT"
    /\ last[b].added
    /\ last[b].e = e
    /\ <<a, "x", gen>> \in last[b].listening

\* the live frame of e for that subscription is on the socket of a
Delivered(a, e, gen) ==
  /\ a \in DOMAIN out
  /\ \E i \in 1..Len(out[a]) :
       /\ out[a][i].type = "EVENT"
       /\ out[a][i].live
       /\ out[a][i].sub = "x"
       /\ out[a][i].e = e
       /\ out[a][i].gen = gen

Gone(a) == a \in DOMAIN sock /\ ~CanWrite(a)

\* C15: if connection A holds a subscription x whose filter set matches event
\* e and whose backfill has finished, and another connection B successfully
\* posts e, then under fair scheduling and while A stays open the frame
\* ["EVENT", x, e] is eventually written to A's socket.
C15_EventuallyDelivered ==
  \A a \in Conns, e \in {1, 2}, gen \in 1..MaxMsgs :
    PostedFor(a, e, gen) ~> (Delivered(a, e, gen) \/ Gone(a))

\* connection 1 posted event 1 for the subscription of connection 0, whose
\* socket is open and has the frame after the EOSE of its REQ
C15_Witness ==
  /\ 0 \in DOMAIN sock
  /\ CanWrite(0)
  /\ PostedFor(0, 1, 1)
  /\ Delivered(0, 1, 1)
  /\ out[0] = <<EoseFrame("x", 1), EventFrame("x", 1, 1, 1, TRUE)>>
  /\ 1 \in DOMAIN last
  /\ last[1].cmd = "EVENT"

\* the _send_event task of the fan-out of event e, stored as the n-th, for
\* subscription s of socket a is in the queue
Scheduled(q, a, s, e, n) ==
  \E j \in 1..Len(q) :
    q[j] = SendEventTask(a, EventFrame(s.id, e, s.gen, n, TRUE), FALSE)

\* C16: for every event e of any kind (kind 5 included) for which
\* store.add_event(e) succeeded, the fan-out runs whatever the later steps of
\* EVENT handling do: for every connection and every subscription of it whose
\* filter set matches e at that moment, a send of ["EVENT", sub_id, e] to
\* that connection is scheduled.
C16_FanOutAfterAdd ==
  [][\A b \in DOMAIN last :
       (HandlesEvent(b) /\ last'[b].added) =>
         \A a \in DOMAIN ws :
           \A i \in 1..Len(ws[a].subs) :
             test(Ev(last'[b].e), ws[a].subs[i].filter) =>
               Scheduled(ready', a, ws[a].subs[i], last'[b].e, last'[b].n)]_vars

\* C17: store.do_delete(e) is called only for events with kind 5 and only
\* after store.add_event(e) has succeeded for the same e; it is never called
\* for an invalid, rejected or duplicate event, and it is called before the
\* fan-out for e.
C17_DeleteAfterAdd ==
  [][\A c \in DOMAIN last :
       HandlesEvent(c) =>
         LET e == Ev(last'[c].e) IN
         /\ last'[c].deleted =>
              /\ e.kind = KIND_DELETE
              /\ last'[c].added
              /\ e.ok
              /\ ~AcceptLoop(accept_req, 1, e).raised
              /\ e.id \notin store
              /\ e.id \in store'
         /\ (store \ store') # {} => last'[c].deleted
         /\ (last'[c].fanout /\ e.kind = KIND_DELETE) =>
              /\ last'[c].deleted
              /\ e.etag \notin store']_vars

\* the kind 5 event 3 was stored, event 1 it refers to is deleted and the
\* fan-out created a send for a subscription
C17_Witness ==
  \E c \in DOMAIN last :
    /\ last[c].cmd = "EVENT"
    /\ last[c].e = 3
    /\ last[c].deleted
    /\ last[c].fanout
    /\ last[c].sched # {}
    /\ store = {2, 3}

\* C18: whenever a connection's read loop has terminated for any reason (peer
\* close, transport error, a failed write, an error raised while handling a
\* frame), the connection and all its subscriptions are removed from the
\* connection table: in every reachable state every entry of the table
\* belongs to a connection whose handler is still running.
C18_TableOfRunning ==
  \A c \in DOMAIN ws : hpc[c].pc \notin {"done", "crashed"}

\* _do_send of a fan-out frame for connection c runs and its write fails
FanOutWriteFails(c) ==
  /\ ready # <<>>
  /\ Head(ready).t = "D"
  /\ Head(ready).c = c
  /\ Head(ready).fr.live
  /\ ~CanWrite(c)
  /\ ready' = Tail(ready)

\* C19: when writing a fan-out EVENT frame to connection c fails, the sends
\* scheduled for the same event to every other connection still take place,
\* the EVENT handler of the posting connection is not aborted, and the
\* failing connection c transitions to CLOSING (it stops being a target of
\* later fan-outs and is removed); no other connection is torn down.
C19_FailingConnectionCloses ==
  [][(\A c \in DOMAIN sock :
        FanOutWriteFails(c) =>
          /\ hpc' = hpc
          /\ ws' = ws
          /\ \A a \in DOMAIN sock \ {c} : sock'[a] = sock[a])
     /\
     (\A b \in DOMAIN last :
        HandlesEvent(b) =>
          \A t \in last'[b].sched : sock[t[1]] # "failed")]_vars

\* the EVENT frames written to the socket of c or scheduled for it
EventFramesFor(c) ==
  LET tasks == SelectSeq(ready, LAMBDA t : t.t \in {"T", "D"} /\ t.c = c)
  IN  SelectSeq(out[c], LAMBDA f : f.type = "EVENT")
        \o [i \in 1..Len(tasks) |-> tasks[i].fr]

\* two frames of one lifetime of a subscription
SameLifetime(f, g) == f.sub = g.sub /\ f.gen = g.gen

\* C20: for one lifetime of a subscription (from its REQ to its CLOSE or the
\* teardown of the connection) no event is sent on it twice: an event
\* returned in the backfill is never also scheduled as a live delivery for
\* that subscription, and no event is scheduled live twice, under every
\* interleaving of the REQ with EVENT posts from other connections.
C20_NoEventTwice ==
  \A c \in DOMAIN out :
    LET fs == EventFramesFor(c) IN
    \A i, j \in 1..Len(fs) :
      (i < j /\ SameLifetime(fs[i], fs[j])) => fs[i].e # fs[j].e

\* C20, amended: for one lifetime of a subscription no admission of an event
\* by the store is sent on it twice: the backfill holds each event once, the
\* fan-out schedules one live delivery per admission, and it does so only
\* for an event that was not in the store when it was posted, so that an
\* event of the backfill is scheduled live only after the store has removed
\* it and admitted it again.
C20_NoAdmissionTwice ==
  /\ [](\A c \in DOMAIN out :
          LET fs == EventFramesFor(c) IN
          \A i, j \in 1..Len(fs) :
            (i < j /\ SameLifetime(fs[i], fs[j]) /\ fs[i].e = fs[j].e) =>
              /\ fs[i].live \/ fs[j].live
              /\ fs[i].n # fs[j].n)
  /\ [][\A b \in DOMAIN last :
          (HandlesEvent(b) /\ last'[b].sched # {}) =>
            /\ last'[b].added
            /\ last'[b].e \notin store
            /\ \A a \in DOMAIN ws :
                 \A i \in 1..Len(ws[a].subs) :
                   Cardinality({k \in 1..Len(ready') :
                      /\ ready'[k].t = "T"
                      /\ ready'[k].c = a
                      /\ ready'[k].fr.n = last'[b].n
                      /\ ready'[k].fr.gen = ws[a].subs[i].gen}) <= 1]_vars

\* a socket has, for one lifetime of subscription "x", a frame of its
\* backfill and the live frame of an event that was posted during the
\* backfill
C20_Witness ==
  \E c \in DOMAIN out :
    \E i, j \in 1..Len(out[c]) :
      /\ i < j
      /\ out[c][i].type = "EVENT"
      /\ out[c][j].type = "EVENT"
      /\ SameLifetime(out[c][i], out[c][j])
      /\ out[c][i].live
      /\ ~out[c][j].live
      /\ out[c][i].e # out[c][j].e

\* the tasks of the queue that run the handler of connection c: woken with a
\* frame, or resumed in the backfill of a REQ
HandlerTasks(c) ==
  SelectSeq(ready, LAMBDA t : t.c = c /\ (t.t \in {"H", "W"} \/ (t.t = "T" /\ t.wake)))

\* this step runs the handler of connection c
RunsHandler(c) ==
  /\ ready # <<>>
  /\ Head(ready).c = c
  /\ Head(ready).t \in {"H", "W"}

\* C21: frames of one connection are handled strictly one at a time in
\* arrival order: the handler of frame n+1 of a connection does not start
\* before the handler of frame n (a REQ's whole backfill loop and EOSE
\* included) has returned, while handlers of different connections may
\* interleave at every suspension point; so only the owning connection's
\* handler ever writes its subscription map and never two of its handlers at
\* once.
C21_OneFrameAtATime ==
  /\ [](\A c \in DOMAIN hpc :
          /\ Len(HandlerTasks(c)) <= 1
          /\ hpc[c].pc = "recv" => HandlerTasks(c) = <<>>
          /\ hpc[c].pc = "backfill" =>
               /\ last[c].cmd = "REQ"
               /\ last[c].k = hpc[c].gen
               /\ \A i \in 1..Len(ready) :
                    ~(ready[i].t = "H" /\ ready[i].c = c))
  /\ [][\A c \in DOMAIN ws :
          /\ (last'[c].k # last[c].k) =>
               /\ RunsHandler(c)
               /\ Head(ready).t = "H"
               /\ hpc[c].pc = "woken"
               /\ last'[c].k = last[c].k + 1
          /\ (c \notin DOMAIN ws' \/ ws'[c] # ws[c]) => RunsHandler(c)]_vars

\* connection 0 is suspended in the backfill of its first frame, a REQ, and
\* the handler of connection 1 has meanwhile handled an EVENT frame whose
\* fan-out found the subscription of connection 0
C21_Witness ==
  /\ 0 \in DOMAIN hpc
  /\ hpc[0].pc = "backfill"
  /\ hpc[0].gen = 1
  /\ 1 \in DOMAIN last
  /\ last[1].cmd = "EVENT"
  /\ <<0, "x">> \in last[1].sched

\* the handler of c handles a REQ or CLOSE frame in this step
HandlesSub(c) ==
  /\ last'[c].k # last[c].k
  /\ last'[c].cmd \in {"REQ", "CLOSE"}

\* C22: a REQ or CLOSE on connection c changes only c's subscription map:
\* the subscription maps of all other connections, the key set of the
\* connection table and the store are unchanged, and the same sub_id may be
\* held at the same time by two connections with different filters without
\* either REQ being rejected as duplicate; a rejected REQ or CLOSE
\* (duplicate, over limit, unknown sub_id, missing sub_id) changes no
\* subscription map at all.  (The key set loses c, and nothing else, when
\* the socket of c is gone and its read loop ends on return from the frame.)
C22_OnlyOwnSubscriptions ==
  [][\A c \in DOMAIN last :
       HandlesSub(c) =>
         /\ store' = store
         /\ \A a \in DOMAIN ws \ {c} : a \in DOMAIN ws' /\ ws'[a] = ws[a]
         /\ DOMAIN ws' \subseteq DOMAIN ws
         /\ CanWrite(c) => DOMAIN ws' = DOMAIN ws
         /\ last'[c].res = "exists" => HasSub(ws[c].subs, last'[c].sub)
         /\ last'[c].res = "max" => Len(ws[c].subs) >= max_sub
         /\ last'[c].res = "unknown" => ~HasSub(ws[c].subs, last'[c].sub)
         /\ last'[c].res = "missing" => last'[c].sub = NoSubId
         /\ last'[c].res # "ok" => ws' = ws
         /\ (last'[c].res = "ok" /\ c \in DOMAIN ws') =>
              /\ \A i \in 1..Len(ws'[c].subs) :
                   ws'[c].subs[i].id # last'[c].sub =>
                     \E j \in 1..Len(ws[c].subs) : ws[c].subs[j] = ws'[c].subs[i]
              /\ \A j \in 1..Len(ws[c].subs) :
                   ws[c].subs[j].id # last'[c].sub =>
                     \E i \in 1..Len(ws'[c].subs) : ws'[c].subs[i] = ws[c].subs[j]
              /\ HasSub(ws'[c].subs, last'[c].sub) <=> last'[c].cmd = "REQ"]_vars

\* connections 0 and 1 hold sub_id "x" at the same time with different
\* filters, each by a REQ that was accepted
C22_Witness ==
  /\ DOMAIN ws = {0, 1}
  /\ HasSub(ws[0].subs, "x")
  /\ HasSub(ws[1].subs, "x")
  /\ SubOf(ws[0].subs, "x").filter # SubOf(ws[1].subs, "x").filter
  /\ last[0].cmd = "REQ"
  /\ last[0].res = "ok"
  /\ last[1].cmd = "REQ"
  /\ last[1].res = "ok"

====
